---- MODULE Spec2Model ----
(***************************************************************************)
(* Model of pygame_panel.py: Signal (connect / emit), the Panel tree       *)
(* (parent / components), the hit-testing dispatch of mouse events with    *)
(* hover tracking, the paint pass, and the TopLevelPanel entry points.     *)
(*                                                                         *)
(* Panels are the identities 0 .. MaxPanels-1; panel 0 is the              *)
(* TopLevelPanel, the others are plain Panels constructed in order.  The   *)
(* object heap is the record Heap; the methods are operators from a heap   *)
(* to a result [h |-> heap after, exc |-> exception raised or "none"],     *)
(* and each action applies one public call to the heap.  A dispatch        *)
(* returns [hov, log, exc, slots]: the hovered sets it leaves, the signals *)
(* it emitted and the slots it invoked, in order, the exception that ended *)
(* it, and the slots it read.                                              *)
(***************************************************************************)
EXTENDS Integers, Sequences, FiniteSets, TLC

\* ------------------------------------------------------------------ bounds
MaxPanels == 4      \* panel objects that may exist, the TopLevelPanel included
TreePanels == 3     \* panel objects in the specifications that mutate the tree
Size == 2           \* the surface is Size x Size; event positions lie on it
MaxSlots == 3       \* connect calls in the specification of Signal alone
SlotPanels == 2     \* panel objects in the specification with failing slots
MaxObservers == 2   \* slots on the signal that has slots, in that specification

VARIABLES created,      \* the Panel objects constructed so far
          parent,       \* Panel._parent
          components,   \* Panel.components (a list)
          hovered,      \* Panel.__hovered_components (a set)
          rect,         \* Panel.rect
          visible,      \* Panel.visible
          slots,        \* Signal.slots of the signals that have slots,
                        \* by <<panel, signal name>>
          last,         \* the last public call: method, receiver, panel
                        \* argument and the exception that reached the caller
          inside        \* history: the panels whose latest enter/exit emission
                        \* was mouse_entered

vars == <<created, parent, components, hovered, rect, visible, slots, last,
          inside>>

Panels == 0 .. (MaxPanels - 1)
Root == 0
None == -1

Range(s) == {s[i] : i \in 1 .. Len(s)}

\* ------------------------------------------------------------ rectangles
\* pygame.Rect as the (x, y, w, h) record the code reads.
Rect(x, y, w, h) == [x |-> x, y |-> y, w |-> w, h |-> h]

\* The rect argument of Panel(...): either absent (None) or a rectangle.
NoRect == [given |-> FALSE, r |-> Rect(0, 0, 0, 0)]
Given(r) == [given |-> TRUE, r |-> r]
RectArgs == {NoRect,
             Given(Rect(0, 0, 2, 2)),
             Given(Rect(1, 0, 1, 1)),
             Given(Rect(1, 1, 0, 0))}

\* The rectangles given to the panels of a scene that events are sent to.
SceneRectArgs == {a \in RectArgs : a.given /\ a.r.w # 0 /\ a.r.h # 0}

\* Rectangles with origins off both axes, for the scenes in which the
\* positions delivered are compared with the origins on the path.
OffsetRectArgs == {Given(Rect(0, 0, 2, 2)),
                   Given(Rect(1, 0, 1, 1)),
                   Given(Rect(0, 1, 2, 1)),
                   Given(Rect(1, 1, 1, 1))}

\* `rect or pygame.Rect(0, 0, 0, 0)`: None and every rectangle of zero
\* width or height are falsy and are replaced by the zero rectangle.
RectOrDefault(a) ==
    IF a.given /\ a.r.w # 0 /\ a.r.h # 0 THEN a.r ELSE Rect(0, 0, 0, 0)

\* surface.get_rect() of the Size x Size surface of the TopLevelPanel.
SurfaceRect == Given(Rect(0, 0, Size, Size))

Positions == (0 .. (Size - 1)) \X (0 .. (Size - 1))

\* panel.rect.collidepoint(pos): left/top inclusive, right/bottom exclusive.
collidepoint(r, pos) ==
    /\ r.x <= pos[1] /\ pos[1] < r.x + r.w
    /\ r.y <= pos[2] /\ pos[2] < r.y + r.h

rel_posXOnly(r, pos) == <<pos[1] - r.x, pos[2]>>

\* rel_pos = (pos[0] - panel.rect.x, pos[1] - panel.rect.y)
rel_pos(r, pos) == <<pos[1] - r.x, pos[2] - r.y>>

\* ------------------------------------------------------------------ heap
Heap == [parent |-> parent, components |-> components, hovered |-> hovered,
         rect |-> rect, visible |-> visible, slots |-> slots]

Ok(h) == [h |-> h, exc |-> "none"]
Raise(h, e) == [h |-> h, exc |-> e]

\* The instance attributes Panel.__init__ creates.  Inside class Panel the
\* name __hovered_components is mangled to _Panel__hovered_components.
PanelAttrs == {"_parent", "rect", "components", "_Panel__hovered_components",
               "visible", "mouse_pressed", "mouse_released", "mouse_entered",
               "mouse_exited", "mouse_moved"}

\* The five Signal attributes of a panel.
SigNames == {"mouse_pressed", "mouse_released", "mouse_entered", "mouse_exited",
             "mouse_moved"}

\* Signal.__init__: self.slots = list()
SignalInit == <<>>

\* The slots of the signals are kept for the signals that have any: w maps
\* <<panel, signal name>> to the list, and a signal it does not map has
\* the empty list of its construction.
NoSlots == [k \in {} |-> SignalInit]
SlotsOf(w, panel, sig) ==
    IF <<panel, sig>> \in DOMAIN w THEN w[<<panel, sig>>] ELSE SignalInit

\* self.mouse_pressed = Signal() ... self.mouse_moved = Signal()
NewSignals(w, self) == [k \in {j \in DOMAIN w : j[1] # self} |-> w[k]]

\* The attribute remove_panel reads: one leading underscore, so not mangled.
RemoveHoveredAttr == "_hovered_components"

\* ------------------------------------------------------- tree mutation
\* parent.setter, applied to `self` with the new value `panel`.
ParentSetterNoCheck(h, self, panel) ==
    Ok([h EXCEPT !.parent[self] = panel])

ParentSetter(h, self, panel) ==
    IF h.parent[self] = None \/ panel = None
    THEN Ok([h EXCEPT !.parent[self] = panel])
    ELSE Raise(h, "Exception")

AppendPanelFront(comps, panel) == <<panel>> \o comps

\* self.components.append(panel)
AppendPanel(comps, panel) == Append(comps, panel)

\* Panel.add_panel
AddPanel(h, self, panel) ==
    LET r == ParentSetter(h, panel, self)
    IN  IF r.exc # "none" THEN r
        ELSE Ok([r.h EXCEPT !.components[self] = AppendPanel(@, panel)])

\* list.remove(x): drops the first element equal to x.
ListRemove(s, x) ==
    LET i == CHOOSE k \in 1 .. Len(s) : s[k] = x /\ \A j \in 1 .. (k - 1) : s[j] # x
    IN  [k \in 1 .. (Len(s) - 1) |-> IF k < i THEN s[k] ELSE s[k + 1]]

RemovePanelClearing(h, self, panel) ==
    Raise([h EXCEPT !.hovered[self] = @ \ {panel}, !.parent[panel] = None],
          "ValueError")

\* Panel.remove_panel: list.remove raises ValueError when the panel is
\* absent; the next statement reads self._hovered_components, an attribute
\* no Panel has, so it raises AttributeError before the parent is cleared.
RemovePanel(h, self, panel) ==
    IF panel \notin Range(h.components[self]) THEN Raise(h, "ValueError")
    ELSE LET h1 == [h EXCEPT !.components[self] = ListRemove(@, panel)]
         IN  IF RemoveHoveredAttr \notin PanelAttrs THEN Raise(h1, "AttributeError")
             ELSE LET h2 == [h1 EXCEPT !.hovered[self] = @ \ {panel}]
                  IN  ParentSetter(h2, panel, None)

\* Panel.__init__(rect, parent) on the fresh object `self`.
PanelInit(h, self, rectArg, par) ==
    LET h0 == [h EXCEPT !.parent[self] = None]
        r1 == IF par # None THEN AddPanel(h0, par, self) ELSE Ok(h0)
    IN  IF r1.exc # "none" THEN r1
        ELSE Ok([r1.h EXCEPT !.rect[self] = RectOrDefault(rectArg),
                             !.components[self] = <<>>,
                             !.hovered[self] = {},
                             !.visible[self] = TRUE,
                             !.slots = NewSignals(@, self)])

\* TopLevelPanel.__init__(surface)
TopLevelPanelInit(h, self) == PanelInit(h, self, SurfaceRect, None)

\* ------------------------------------------------------------- signals
\* The callables connected as slots: two that return and one that raises.
SlotIds == {"f", "g", "bad"}
Raises(slot) == slot = "bad"

SignalConnectOnce(list, func) ==
    IF func \in Range(list) THEN list ELSE Append(list, func)

\* Signal.connect(func): self.slots.append(func)
SignalConnect(list, func) == Append(list, func)

\* The state one dispatch threads through its calls: the hovered sets, the
\* log so far (in order), the exception being propagated and the slots of
\* the signals.  The log holds one Emission for every emit call, followed by
\* one Invocation for every slot that call invoked.
Emission(sig, panel, args) == [sig |-> sig, panel |-> panel, args |-> args]
Invocation(sig, panel, args, slot) ==
    [sig |-> "slot", panel |-> panel, args |-> args, of |-> sig, slot |-> slot]

RECURSIVE EmitEach(_, _, _, _, _, _), EmitEachIsolated(_, _, _, _, _, _)

EmitEachIsolated(list, i, d, sig, panel, args) ==
    IF i > Len(list) THEN d
    ELSE EmitEachIsolated(list, i + 1,
             [d EXCEPT !.log = Append(@, Invocation(sig, panel, args, list[i]))],
             sig, panel, args)

\* `for slot in self.slots: slot(*args, **kwargs)` from index i; a slot
\* that raises ends the loop and the exception propagates.
EmitEach(list, i, d, sig, panel, args) ==
    IF i > Len(list) \/ d.exc # "none" THEN d
    ELSE LET d1 == [d EXCEPT !.log = Append(@, Invocation(sig, panel, args, list[i]))]
         IN  EmitEach(list, i + 1,
                      IF Raises(list[i]) THEN [d1 EXCEPT !.exc = "SlotError"] ELSE d1,
                      sig, panel, args)

\* Signal.emit(*args) on the signal `sig` of `panel`.
Emit(d, sig, panel, args) ==
    LET d1 == [d EXCEPT !.log = Append(@, Emission(sig, panel, args))]
    IN  IF <<panel, sig>> \notin DOMAIN d.slots THEN d1
        ELSE EmitEach(d.slots[<<panel, sig>>], 1, d1, sig, panel, args)

\* Iteration order of a Python set: unspecified; `ord` (a permutation of the
\* panels, chosen freely for every dispatch) fixes it.
IterOrder(S, ord) == SelectSeq(ord, LAMBDA x : x \in S)

\* The orders the model draws from: by ascending and by descending identity.
Ascending == [i \in 1 .. MaxPanels |-> i - 1]
Descending == [i \in 1 .. MaxPanels |-> MaxPanels - i]
Orders == {Ascending, Descending}

\* ------------------------------------------------------------ dispatch
HitIfVisible(h, panel, pos) ==
    h.visible[panel] /\ collidepoint(h.rect[panel], pos)

\* `if panel.rect.collidepoint(pos)` of the three dispatch loops.
Hit(h, panel, pos) == collidepoint(h.rect[panel], pos)

RECURSIVE OnMousePressed(_, _, _, _, _), PressEach(_, _, _, _, _, _)
RECURSIVE OnMouseReleased(_, _, _, _, _), ReleaseEach(_, _, _, _, _, _)
RECURSIVE OnMouseMoved(_, _, _, _, _, _), MoveEach(_, _, _, _, _, _, _)
RECURSIVE OnMouseExited(_, _, _, _), ExitEach(_, _, _, _, _)
RECURSIVE EnterEach(_, _, _), PressFirstHit(_, _, _, _, _, _)

\* A call whose (panel, position) is already on the call stack repeats
\* itself for ever: Python ends it with RecursionError.  `stack` holds the
\* calls in progress.

PressFirstHit(self, i, pos, h, d, stack) ==
    IF i > Len(h.components[self]) \/ d.exc # "none" THEN d
    ELSE LET panel == h.components[self][i]
         IN  IF Hit(h, panel, pos)
             THEN OnMousePressed(panel, rel_pos(h.rect[panel], pos), h, d, stack)
             ELSE PressFirstHit(self, i + 1, pos, h, d, stack)

\* Panel.__on_mouse_pressed: the loop over self.components from index i.
PressEach(self, i, pos, h, d, stack) ==
    IF i > Len(h.components[self]) \/ d.exc # "none" THEN d
    ELSE LET panel == h.components[self][i]
             d1 == IF Hit(h, panel, pos)
                   THEN OnMousePressed(panel, rel_pos(h.rect[panel], pos), h, d, stack)
                   ELSE d
         IN  PressEach(self, i + 1, pos, h, d1, stack)

OnMousePressed(self, pos, h, d, stack) ==
    IF <<self, pos>> \in stack THEN [d EXCEPT !.exc = "RecursionError"]
    ELSE LET d1 == PressEach(self, 1, pos, h, d, stack \cup {<<self, pos>>})
         IN  IF d1.exc # "none" THEN d1
             ELSE Emit(d1, "mouse_pressed", self, <<pos>>)

\* Panel.__on_mouse_released
ReleaseEach(self, i, pos, h, d, stack) ==
    IF i > Len(h.components[self]) \/ d.exc # "none" THEN d
    ELSE LET panel == h.components[self][i]
             d1 == IF Hit(h, panel, pos)
                   THEN OnMouseReleased(panel, rel_pos(h.rect[panel], pos), h, d, stack)
                   ELSE d
         IN  ReleaseEach(self, i + 1, pos, h, d1, stack)

OnMouseReleased(self, pos, h, d, stack) ==
    IF <<self, pos>> \in stack THEN [d EXCEPT !.exc = "RecursionError"]
    ELSE LET d1 == ReleaseEach(self, 1, pos, h, d, stack \cup {<<self, pos>>})
         IN  IF d1.exc # "none" THEN d1
             ELSE Emit(d1, "mouse_released", self, <<pos>>)

\* Panel.__on_mouse_entered
OnMouseEntered(self, d) == Emit(d, "mouse_entered", self, <<>>)

\* `for panel in hovered.difference(...): panel.__on_mouse_entered(event)`
EnterEach(seq, i, d) ==
    IF i > Len(seq) \/ d.exc # "none" THEN d
    ELSE EnterEach(seq, i + 1, OnMouseEntered(seq[i], d))

NoCascade(d, self) == {}

\* the set `for panel in self.__hovered_components` of __on_mouse_exited walks
ExitTargets(d, self) == d.hov[self]

\* Panel.__on_mouse_exited
ExitEach(seq, i, d, ord, stack) ==
    IF i > Len(seq) \/ d.exc # "none" THEN d
    ELSE ExitEach(seq, i + 1, OnMouseExited(seq[i], d, ord, stack), ord, stack)

OnMouseExitedKeep(self, d, ord, stack) ==
    IF self \in stack THEN [d EXCEPT !.exc = "RecursionError"]
    ELSE LET d1 == ExitEach(IterOrder(ExitTargets(d, self), ord), 1, d, ord,
                            stack \cup {self})
         IN  IF d1.exc # "none" THEN d1
             ELSE Emit(d1, "mouse_exited", self, <<>>)

OnMouseExited(self, d, ord, stack) ==
    IF self \in stack THEN [d EXCEPT !.exc = "RecursionError"]
    ELSE LET d1 == ExitEach(IterOrder(ExitTargets(d, self), ord), 1, d, ord,
                            stack \cup {self})
             d2 == Emit(d1, "mouse_exited", self, <<>>)
         IN  IF d1.exc # "none" THEN d1
             ELSE IF d2.exc # "none" THEN d2
             ELSE [d2 EXCEPT !.hov[self] = {}]

EnteringAll(hit, old) == hit

\* hovered.difference(self.__hovered_components)
Entering(hit, old) == hit \ old

\* self.__hovered_components.difference(hovered)
Exiting(old, hit) == old \ hit

\* Panel.__on_mouse_moved: the loop over self.components from index i;
\* acc.hit is the local set `hovered`.
MoveEach(self, i, pos, h, acc, ord, stack) ==
    IF i > Len(h.components[self]) \/ acc.d.exc # "none" THEN acc
    ELSE LET panel == h.components[self][i]
         IN  IF Hit(h, panel, pos)
             THEN LET d1 == OnMouseMoved(panel, rel_pos(h.rect[panel], pos), h,
                                         acc.d, ord, stack)
                  IN  MoveEach(self, i + 1, pos, h,
                               [d |-> d1,
                                hit |-> IF d1.exc = "none" THEN acc.hit \cup {panel}
                                        ELSE acc.hit],
                               ord, stack)
             ELSE MoveEach(self, i + 1, pos, h, acc, ord, stack)

OnMouseMovedEmitFirst(self, pos, h, d, ord, stack) ==
    IF <<self, pos>> \in stack THEN [d EXCEPT !.exc = "RecursionError"]
    ELSE LET d1 == Emit(d, "mouse_moved", self, <<pos>>)
             r == MoveEach(self, 1, pos, h, [d |-> d1, hit |-> {}], ord,
                           stack \cup {<<self, pos>>})
         IN  IF r.d.exc # "none" THEN r.d
             ELSE LET d3 == EnterEach(IterOrder(Entering(r.hit, r.d.hov[self]), ord), 1, r.d)
                      d4 == ExitEach(IterOrder(Exiting(d3.hov[self], r.hit), ord), 1,
                                     d3, ord, {})
                  IN  IF d4.exc # "none" THEN d4
                      ELSE [d4 EXCEPT !.hov[self] = r.hit]

OnMouseMoved(self, pos, h, d, ord, stack) ==
    IF <<self, pos>> \in stack THEN [d EXCEPT !.exc = "RecursionError"]
    ELSE LET r == MoveEach(self, 1, pos, h, [d |-> d, hit |-> {}], ord,
                           stack \cup {<<self, pos>>})
         IN  IF r.d.exc # "none" THEN r.d
             ELSE LET d2 == Emit(r.d, "mouse_moved", self, <<pos>>)
                      d3 == EnterEach(IterOrder(Entering(r.hit, d2.hov[self]), ord), 1, d2)
                      d4 == ExitEach(IterOrder(Exiting(d3.hov[self], r.hit), ord), 1,
                                     d3, ord, {})
                  IN  IF d4.exc # "none" THEN d4
                      ELSE [d4 EXCEPT !.hov[self] = r.hit]

DispatchEventElseMove(h, self, type, pos, ord) ==
    LET d0 == [hov |-> h.hovered, log |-> <<>>, exc |-> "none", slots |-> h.slots]
    IN  CASE type = "MOUSEBUTTONDOWN" -> OnMousePressed(self, pos, h, d0, {})
          [] type = "MOUSEBUTTONUP" -> OnMouseReleased(self, pos, h, d0, {})
          [] OTHER -> OnMouseMoved(self, pos, h, d0, ord, {})

\* pygame event types dispatch_event tells apart, and one it does not.
\* TopLevelPanel.dispatch_event(event)
DispatchEvent(h, self, type, pos, ord) ==
    LET d0 == [hov |-> h.hovered, log |-> <<>>, exc |-> "none", slots |-> h.slots]
    IN  CASE type = "MOUSEMOTION" -> OnMouseMoved(self, pos, h, d0, ord, {})
          [] type = "MOUSEBUTTONDOWN" -> OnMousePressed(self, pos, h, d0, {})
          [] type = "MOUSEBUTTONUP" -> OnMouseReleased(self, pos, h, d0, {})
          [] OTHER -> d0

\* ------------------------------------------------------------- painting
\* A canvas is a pygame.Surface; paint reads only its size.
Canvas(w, h) == [w |-> w, h |-> h]

\* TopLevelPanel.get_canvas(): the Size x Size surface itself.
SurfaceCanvas == Canvas(Size, Size)

\* canvas.subsurface(panel.rect): pygame raises ValueError ("subsurface
\* rectangle outside surface area") unless the rectangle lies inside the
\* surface; the subsurface has the size of the rectangle.
Subsurface(canvas, r) ==
    IF r.x >= 0 /\ r.y >= 0 /\ r.x + r.w <= canvas.w /\ r.y + r.h <= canvas.h
    THEN [ok |-> TRUE, canvas |-> Canvas(r.w, r.h)]
    ELSE [ok |-> FALSE, canvas |-> canvas]

RECURSIVE Paint(_, _, _, _, _), PaintEach(_, _, _, _, _, _)

\* Panel.paint: the loop over self.components from index i.  p.painted
\* lists the panels whose paint was called, in order.
PaintEach(self, i, canvas, h, p, stack) ==
    IF i > Len(h.components[self]) \/ p.exc # "none" THEN p
    ELSE LET panel == h.components[self][i]
             s == Subsurface(canvas, h.rect[panel])
         IN  IF ~h.visible[panel] THEN PaintEach(self, i + 1, canvas, h, p, stack)
             ELSE IF ~s.ok THEN [p EXCEPT !.exc = "ValueError"]
             ELSE PaintEach(self, i + 1, canvas, h,
                            Paint(panel, s.canvas, h, p, stack), stack)

Paint(self, canvas, h, p, stack) ==
    IF <<self, canvas>> \in stack THEN [p EXCEPT !.exc = "RecursionError"]
    ELSE PaintEach(self, 1, canvas, h, [p EXCEPT !.painted = Append(@, self)],
                   stack \cup {<<self, canvas>>})

\* TopLevelPanel.render()
Render(h, self) ==
    Paint(self, SurfaceCanvas, h, [painted |-> <<>>, exc |-> "none"], {})

\* The enter/exit emissions of a log replayed from index i on the set `in`
\* of panels that were entered and not exited since; ok turns FALSE at a
\* mouse_entered on a panel in the set or a mouse_exited on one outside it.
RECURSIVE Replay(_, _, _)
Replay(log, i, st) ==
    IF i > Len(log) THEN st
    ELSE LET e == log[i]
         IN  Replay(log, i + 1,
               CASE e.sig = "mouse_entered" ->
                      [in |-> st.in \cup {e.panel}, ok |-> st.ok /\ e.panel \notin st.in]
                 [] e.sig = "mouse_exited" ->
                      [in |-> st.in \ {e.panel}, ok |-> st.ok /\ e.panel \in st.in]
                 [] OTHER -> st)

\* -------------------------------------------------------------- actions
\* The record of the last public call: the method, its receiver, its panel
\* argument (None when it has none) and the exception that reached the caller.
Call(op, self, panel, exc) ==
    [op |-> op, self |-> self, panel |-> panel, exc |-> exc]

\* The same for a call on a signal of `self`, with the signal's name.
SignalCall(op, self, sig, exc) ==
    [op |-> op, self |-> self, panel |-> None, exc |-> exc, sig |-> sig]

SetHeap(h) ==
    /\ parent' = h.parent
    /\ components' = h.components
    /\ hovered' = h.hovered
    /\ rect' = h.rect
    /\ visible' = h.visible
    /\ slots' = h.slots

BlankHeap == [parent |-> [p \in Panels |-> None],
              components |-> [p \in Panels |-> <<>>],
              hovered |-> [p \in Panels |-> {}],
              rect |-> [p \in Panels |-> Rect(0, 0, 0, 0)],
              visible |-> [p \in Panels |-> TRUE],
              slots |-> NoSlots]

\* root = TopLevelPanel(surface)
Init ==
    LET r == TopLevelPanelInit(BlankHeap, Root)
    IN  /\ created = {Root}
        /\ parent = r.h.parent
        /\ components = r.h.components
        /\ hovered = r.h.hovered
        /\ rect = r.h.rect
        /\ visible = r.h.visible
        /\ slots = r.h.slots
        /\ last = Call("TopLevelPanel", Root, None, r.exc)
        /\ inside = {}

\* q = Panel(rect, parent), while fewer than `cap` panels exist
Construct(rectArg, par, cap) ==
    LET self == Cardinality(created)
        r == PanelInit(Heap, self, rectArg, par)
    IN  /\ self < cap
        /\ created' = created \cup {self}
        /\ SetHeap(r.h)
        /\ last' = Call("Panel", self, par, r.exc)
        /\ UNCHANGED inside

\* self.add_panel(panel)
DoAddPanel(self, panel) ==
    LET r == AddPanel(Heap, self, panel)
    IN  /\ SetHeap(r.h)
        /\ last' = Call("add_panel", self, panel, r.exc)
        /\ UNCHANGED <<created, inside>>

\* self.remove_panel(panel)
DoRemovePanel(self, panel) ==
    LET r == RemovePanel(Heap, self, panel)
    IN  /\ SetHeap(r.h)
        /\ last' = Call("remove_panel", self, panel, r.exc)
        /\ UNCHANGED <<created, inside>>

\* panel.visible = b
SetVisible(self, b) ==
    /\ visible' = [visible EXCEPT ![self] = b]
    /\ last' = Call("visible", self, None, "none")
    /\ UNCHANGED <<created, parent, components, hovered, rect, slots, inside>>

\* root.dispatch_event(event)
DoDispatchEvent(type, pos, ord) ==
    LET d == DispatchEvent(Heap, Root, type, pos, ord)
    IN  /\ hovered' = d.hov
        /\ last' = Call(type, Root, None, d.exc)
        /\ inside' = Replay(d.log, 1, [in |-> inside, ok |-> TRUE]).in
        /\ UNCHANGED <<created, parent, components, rect, visible, slots>>

\* The payloads of the emit calls made on a signal directly.
Payloads == {<<>>, <<(<<0, 0>>)>>}

\* self.<sig>.connect(slot)
DoConnect(self, sig, slot) ==
    /\ slots' = [k \in DOMAIN slots \cup {<<self, sig>>} |->
                    IF k = <<self, sig>>
                    THEN SignalConnect(SlotsOf(slots, self, sig), slot)
                    ELSE slots[k]]
    /\ last' = SignalCall("connect", self, sig, "none")
    /\ UNCHANGED <<created, parent, components, hovered, rect, visible, inside>>

\* self.<sig>.emit(*args), called on the signal directly
DoEmit(self, sig, args) ==
    LET d == Emit([hov |-> hovered, log |-> <<>>, exc |-> "none", slots |-> slots],
                  sig, self, args)
    IN  /\ last' = SignalCall("emit", self, sig, d.exc)
        /\ inside' = Replay(d.log, 1, [in |-> inside, ok |-> TRUE]).in
        /\ UNCHANGED <<created, parent, components, hovered, rect, visible, slots>>

\* root.render()
DoRender ==
    LET p == Render(Heap, Root)
    IN  /\ last' = Call("render", Root, None, p.exc)
        /\ UNCHANGED <<created, parent, components, hovered, rect, visible, slots,
                       inside>>

\* The events sent to the root.  Only a motion walks a set, so only it
\* draws an iteration order; an event of another type carries no position
\* that dispatch_event reads.
Events ==
    \/ \E pos \in Positions, ord \in Orders : DoDispatchEvent("MOUSEMOTION", pos, ord)
    \/ \E t \in {"MOUSEBUTTONDOWN", "MOUSEBUTTONUP"}, pos \in Positions :
          DoDispatchEvent(t, pos, Ascending)
    \/ DoDispatchEvent("KEYDOWN", <<0, 0>>, Ascending)

\* ------------------------------------------------------- specifications
\* Spec: construction, add_panel, remove_panel and event dispatch
\* interleaved freely, on at most TreePanels panels.
Next ==
    \/ \E a \in RectArgs, par \in created \cup {None} : Construct(a, par, TreePanels)
    \/ \E p, q \in created : DoAddPanel(p, q)
    \/ \E p, q \in created : DoRemovePanel(p, q)
    \/ Events

Spec == Init /\ [][Next]_vars

\* SpecTree: the tree mutations alone (they never read a rectangle, so the
\* panels are built with the default one).
NextTree ==
    \/ \E par \in created \cup {None} : Construct(NoRect, par, TreePanels)
    \/ \E p, q \in created : DoAddPanel(p, q)
    \/ \E p, q \in created : DoRemovePanel(p, q)

SpecTree == Init /\ [][NextTree]_vars

\* SpecDispatch: a tree of up to MaxPanels panels built by the constructor
\* under the root, with events dispatched through the root in between.
NextDispatch ==
    \/ \E a \in SceneRectArgs, par \in created : Construct(a, par, MaxPanels)
    \/ Events

SpecDispatch == Init /\ [][NextDispatch]_vars

\* SpecVisible: as SpecDispatch on at most TreePanels panels, with the
\* visible flags assigned freely.
NextVisible ==
    \/ \E a \in SceneRectArgs, par \in created : Construct(a, par, TreePanels)
    \/ \E p \in created, b \in BOOLEAN : SetVisible(p, b)
    \/ Events

SpecVisible == Init /\ [][NextVisible]_vars

\* SpecDetach: as SpecVisible with remove_panel in place of the visible
\* flags, so that panels are removed while they are hovered.
NextDetach ==
    \/ \E a \in SceneRectArgs, par \in created : Construct(a, par, TreePanels)
    \/ \E p, q \in created : DoRemovePanel(p, q)
    \/ Events

SpecDetach == Init /\ [][NextDetach]_vars

\* SpecBuild: structures built by construction and add_panel alone, with
\* events dispatched through the root in between.
NextBuild ==
    \/ \E a \in RectArgs, par \in created \cup {None} : Construct(a, par, TreePanels)
    \/ \E p, q \in created : DoAddPanel(p, q)
    \/ Events

SpecBuild == Init /\ [][NextBuild]_vars

\* SpecOffsets: as SpecDispatch on at most TreePanels panels, with
\* rectangles whose origins are off both axes.
NextOffsets ==
    \/ \E a \in OffsetRectArgs, par \in created : Construct(a, par, TreePanels)
    \/ Events

SpecOffsets == Init /\ [][NextOffsets]_vars

\* Trees built by the constructor alone, under mouse motion alone: every
\* hover state of the scenes of SpecDispatch, without the press, release
\* and keyboard calls that leave the hover state as it is.
NextHover ==
    \/ \E a \in SceneRectArgs, par \in created : Construct(a, par, MaxPanels)
    \/ \E pos \in Positions, ord \in Orders : DoDispatchEvent("MOUSEMOTION", pos, ord)

SpecHover == Init /\ [][NextHover]_vars

\* SpecPaint: trees built by the constructor under the root, the visible
\* flags assigned freely, and paint passes from the root.
NextPaint ==
    \/ \E a \in SceneRectArgs, par \in created : Construct(a, par, TreePanels)
    \/ \E p \in created, b \in BOOLEAN : SetVisible(p, b)
    \/ DoRender

SpecPaint == Init /\ [][NextPaint]_vars

\* The number of slots connected to the signals of all panels.
TotalSlots ==
    Cardinality({t \in (DOMAIN slots) \X (1 .. MaxSlots) :
                   t[2] <= Len(slots[t[1]])})

\* SpecSignal: the Signal class alone, on the five signals of the root:
\* up to MaxSlots connect calls, and emit calls made on a signal directly.
NextSignal ==
    \/ \E sig \in SigNames, slot \in {"f", "g"} :
          TotalSlots < MaxSlots /\ DoConnect(Root, sig, slot)
    \/ \E sig \in SigNames, args \in Payloads : DoEmit(Root, sig, args)

SpecSignal == Init /\ [][NextSignal]_vars

\* SpecSlots: a tree of up to SlotPanels panels built by the constructor
\* under the root, up to MaxObservers slots connected to one signal of one
\* panel, among them the raising one, and moves and presses dispatched
\* through the root.
NextSlots ==
    \/ \E a \in SceneRectArgs, par \in created : Construct(a, par, SlotPanels)
    \/ \E p \in created, sig \in SigNames, slot \in {"f", "bad"} :
          /\ DOMAIN slots \subseteq {<<p, sig>>}
          /\ Len(SlotsOf(slots, p, sig)) < MaxObservers
          /\ DoConnect(p, sig, slot)
    \/ \E pos \in Positions, ord \in Orders : DoDispatchEvent("MOUSEMOTION", pos, ord)
    \/ \E pos \in Positions : DoDispatchEvent("MOUSEBUTTONDOWN", pos, Ascending)

SpecSlots == Init /\ [][NextSlots]_vars

\* ====================================================== the tree claims
Children(p) == Range(components[p])

\* C1: for Q in P.components, P.remove_panel(Q) completes without error and
\* afterwards Q.parent is None, Q is not in P.components and Q is not in
\* P's hovered set.  (Stated of every remove_panel step; the code raises
\* AttributeError after list.remove, so the step violates it.)
C1_RemoveDetaches ==
    [][(/\ last'.op = "remove_panel"
        /\ last'.panel \in Children(last'.self))
       => (/\ last'.exc = "none"
           /\ parent'[last'.panel] = None
           /\ last'.panel \notin Range(components'[last'.self])
           /\ last'.panel \notin hovered'[last'.self])]_vars

\* C2: in every reachable state Q is in P.components if and only if
\* Q.parent is P.
C2_ParentChildConsistent ==
    \A p, q \in created : (q \in Children(p)) <=> (parent[q] = p)

\* C3: every panel's hovered set is a subset of its components, in every
\* state reached by add_panel, remove_panel and event dispatch.
C3_HoveredSubsetOfComponents ==
    \A p \in created : hovered[p] \subseteq Children(p)

\* C4: add_panel(Q) on P, when Q already has a parent (P or another
\* panel), raises and leaves every parent reference and every components
\* list unchanged.
C4_AddPanelWithParentFails ==
    [][(/\ last'.op = "add_panel"
        /\ parent[last'.panel] # None)
       => (/\ last'.exc = "Exception"
           /\ parent' = parent
           /\ components' = components)]_vars

\* C4 witness: an add_panel that failed on a panel owned by another panel.
C4_Witness ==
    /\ last.op = "add_panel"
    /\ last.exc = "Exception"
    /\ parent[last.panel] \notin {None, last.self}
    /\ last.panel \in Children(parent[last.panel])

\* C5: when Q has no parent, P.add_panel(Q), and equally Panel(parent=P),
\* succeeds, sets Q.parent to P and appends Q at the end of P.components,
\* leaving P's earlier children in order and all other components alone.
C5_AddPanelAppends ==
    [][LET add == last'.op = "add_panel" /\ parent[last'.panel] = None
           new == last'.op = "Panel" /\ last'.panel # None
           P == IF add THEN last'.self ELSE last'.panel
           Q == IF add THEN last'.panel ELSE last'.self
       IN  (add \/ new)
           => (/\ last'.exc = "none"
               /\ parent'[Q] = P
               /\ components'[P] = components[P] \o <<Q>>
               /\ \A o \in Panels \ {P} : components'[o] = components[o]
               /\ \A o \in Panels \ {Q} : parent'[o] = parent[o])]_vars

\* C5 witness: add_panel has just put another panel behind an earlier child.
C5_Witness ==
    /\ last.op = "add_panel"
    /\ last.exc = "none"
    /\ last.panel # last.self
    /\ Len(components[last.self]) >= 2
    /\ components[last.self][Len(components[last.self])] = last.panel
    /\ parent[last.panel] = last.self

\* C10: for Q in P.components, P.remove_panel(Q) followed by R.add_panel(Q)
\* succeeds at both steps and ends with Q.parent = R, Q in R.components and
\* Q not in P.components.  (remove_panel raises ValueError exactly when Q
\* was not in P.components.)
C10_DetachedChildReusable ==
    [][(/\ last.op = "remove_panel" /\ last.exc # "ValueError"
        /\ last'.op = "add_panel" /\ last'.panel = last.panel
        /\ last'.self \notin {last.self, last.panel})
       => (/\ last.exc = "none"
           /\ last'.exc = "none"
           /\ parent'[last.panel] = last'.self
           /\ last.panel \in Range(components'[last'.self])
           /\ last.panel \notin Range(components'[last.self]))]_vars

\* C11: P.remove_panel(Q) for a Q that is not in P.components raises
\* (ValueError from list.remove) and leaves P.components, P's hovered set
\* and Q.parent as they were; stated of the call applied to every pair of
\* panels of the current state.
C11_RemoveAbsentFails ==
    \A P, Q \in created :
        Q \notin Children(P) =>
            LET r == RemovePanel(Heap, P, Q)
            IN  /\ r.exc = "ValueError"
                /\ r.h.components[P] = components[P]
                /\ r.h.hovered[P] = hovered[P]
                /\ r.h.parent[Q] = parent[Q]

\* C11 witness: remove_panel has just failed on a panel that is no longer in
\* the receiver's components but is still in its hovered set and still names
\* it as parent.
C11_Witness ==
    /\ last.op = "remove_panel"
    /\ last.exc = "ValueError"
    /\ last.panel \notin Children(last.self)
    /\ last.panel \in hovered[last.self]
    /\ parent[last.panel] = last.self

\* C12: on any structure built by successful constructions and add_panel
\* calls, every press, release and move dispatch from the root terminates.
\* (A dispatch that re-enters a call already in progress never returns by
\* itself; the interpreter ends it with RecursionError.)
C12_DispatchTerminates ==
    last.op \in {"MOUSEMOTION", "MOUSEBUTTONDOWN", "MOUSEBUTTONUP"}
        => last.exc # "RecursionError"

RECURSIVE ComponentsClosure(_)
\* the panels reachable from those of S through components lists
ComponentsClosure(S) ==
    LET T == S \cup UNION {Children(x) : x \in S}
    IN  IF T = S THEN S ELSE ComponentsClosure(T)

\* C20: after any sequence of constructions, add_panel and remove_panel
\* calls the panels form a forest: no panel is reachable from itself through
\* components lists, and the TopLevelPanel has no parent.
C20_Forest ==
    /\ \A p \in created : p \notin ComponentsClosure(Children(p))
    /\ parent[Root] = None

\* ================================================== the dispatch claims
\* The claims below are stated of the dispatch applied to the current state:
\* for every event the root can be sent now, the emissions it makes and
\* the hovered sets it leaves.

NewDispatch == [hov |-> hovered, log |-> <<>>, exc |-> "none", slots |-> slots]

Count(log, sig, c) ==
    Cardinality({i \in 1 .. Len(log) : log[i].sig = sig /\ log[i].panel = c})

Index(log, sig, c) ==
    CHOOSE i \in 1 .. Len(log) : log[i].sig = sig /\ log[i].panel = c

\* The panel whose components hold c, and the geometry of the claims: the
\* position translated into a panel's own space by subtracting the origins
\* on the path from the root, and whether every rectangle on that path
\* contains the position as translated into its parent's space.
Attached(c) == \E p \in created : c \in Children(p)
Owner(c) == CHOOSE p \in created : c \in Children(p)

RECURSIVE LocalPos(_, _), Reached(_, _), Under(_, _)
LocalPos(c, pos) ==
    IF c = Root THEN pos ELSE rel_pos(rect[c], LocalPos(Owner(c), pos))

Reached(c, pos) ==
    IF c = Root THEN TRUE
    ELSE /\ Attached(c)
         /\ Reached(Owner(c), pos)
         /\ collidepoint(rect[c], LocalPos(Owner(c), pos))

\* c is b or a descendant of b
Under(c, b) ==
    c = b \/ (c # Root /\ Attached(c) /\ Under(Owner(c), b))

\* The iteration orders that matter to an event: only a motion walks a set.
OrdersOf(type) == IF type = "MOUSEMOTION" THEN Orders ELSE {Ascending}

SignalOf(type) ==
    CASE type = "MOUSEMOTION" -> "mouse_moved"
      [] type = "MOUSEBUTTONDOWN" -> "mouse_pressed"
      [] type = "MOUSEBUTTONUP" -> "mouse_released"

\* C6: over any sequence of move events through the root, the mouse_entered
\* and mouse_exited emissions of every non-root panel C strictly alternate,
\* starting with entered: the move that brings the position into C (C is
\* hit along its path from the root) emits entered once, moves that stay
\* inside emit neither, the move that leaves emits exited once.
\* `inside` is the set the emissions so far have entered and not exited.
C6_EnterExitAlternate ==
    \A pos \in Positions, ord \in Orders :
        LET d == DispatchEvent(Heap, Root, "MOUSEMOTION", pos, ord)
            r == Replay(d.log, 1, [in |-> inside, ok |-> TRUE])
        IN  /\ d.exc = "none"
            /\ r.ok
            /\ r.in = {c \in created \ {Root} : Reached(c, pos)}
            /\ \A c \in created \ {Root} :
                 /\ Count(d.log, "mouse_entered", c) =
                      IF c \notin inside /\ Reached(c, pos) THEN 1 ELSE 0
                 /\ Count(d.log, "mouse_exited", c) =
                      IF c \in inside /\ ~Reached(c, pos) THEN 1 ELSE 0

\* C6 witness: moves have entered a panel below a child of the root, and
\* from here one position keeps the pointer inside it and another leaves it.
C6_Witness ==
    /\ last.op = "MOUSEMOTION"
    /\ \E c \in inside :
         /\ Owner(c) # Root
         /\ \E pos \in Positions : Reached(c, pos)
         /\ \E pos \in Positions : ~Reached(c, pos)

RECURSIVE HoverClosure(_)
\* the panels reachable from those of S through hovered sets
HoverClosure(S) ==
    LET T == S \cup UNION {hovered[x] : x \in S}
    IN  IF T = S THEN S ELSE HoverClosure(T)

\* C7: an exit notification on a panel P gives P and every panel reachable
\* from it through hovered sets exactly one mouse_exited, each child's
\* before its container's, and leaves all their hovered sets empty; stated
\* of the notification applied to any panel, and of the notifications a
\* move dispatch delivers.
C7_ExitCascades ==
    /\ \A P \in created \ {Root}, ord \in Orders :
         LET d == OnMouseExited(P, NewDispatch, ord, {})
             T == HoverClosure({P})
         IN  /\ d.exc = "none"
             /\ Len(d.log) = Cardinality(T)
             /\ \A x \in T :
                  /\ Count(d.log, "mouse_exited", x) = 1
                  /\ d.hov[x] = {}
                  /\ \A c \in hovered[x] :
                       Index(d.log, "mouse_exited", c) < Index(d.log, "mouse_exited", x)
             /\ \A y \in Panels \ T : d.hov[y] = hovered[y]
    /\ \A pos \in Positions, ord \in Orders :
         LET d == DispatchEvent(Heap, Root, "MOUSEMOTION", pos, ord)
         IN  \A x \in created :
               Count(d.log, "mouse_exited", x) > 0 =>
                 /\ d.hov[x] = {}
                 /\ \A c \in hovered[x] :
                      /\ Count(d.log, "mouse_exited", c) = 1
                      /\ Index(d.log, "mouse_exited", c) < Index(d.log, "mouse_exited", x)

\* C7 witness: moves have hovered a chain root > P > C > G, and a position
\* outside P's rectangle sends P the exit notification.
C7_Witness ==
    /\ last.op = "MOUSEMOTION"
    /\ \E P \in hovered[Root] : \E C \in hovered[P] : \E G \in hovered[C] :
         \E pos \in Positions : ~collidepoint(rect[P], pos)

\* C8: in a press, release or move dispatch from the root, a non-root
\* panel's signal is emitted (once) exactly when every panel on its path
\* from the root is hit; of two hit siblings the earlier one in components
\* emits before the later one and before everything under the later one.
C8_HitPathDispatch ==
    \A type \in {"MOUSEMOTION", "MOUSEBUTTONDOWN", "MOUSEBUTTONUP"} :
      \A pos \in Positions, ord \in OrdersOf(type) :
        LET d == DispatchEvent(Heap, Root, type, pos, ord)
            sig == SignalOf(type)
            reached == {c \in created : Reached(c, pos)}
        IN  /\ d.exc = "none"
            /\ \A c \in created \ {Root} :
                 Count(d.log, sig, c) = IF c \in reached THEN 1 ELSE 0
            /\ \A p \in created : \A i, j \in 1 .. Len(components[p]) :
                 (/\ i < j
                  /\ components[p][i] \in reached
                  /\ components[p][j] \in reached)
                 => \A y \in reached :
                      Under(y, components[p][j])
                      => Index(d.log, sig, components[p][i]) < Index(d.log, sig, y)

\* C8 witness: a press was dispatched on a tree where two siblings overlap
\* at a position that reaches both, the later one with a hit child.
C8_Witness ==
    /\ last.op = "MOUSEBUTTONDOWN"
    /\ \E p \in created : \E i, j \in 1 .. Len(components[p]) :
         /\ i < j
         /\ \E pos \in Positions :
              /\ Reached(components[p][i], pos)
              /\ Reached(components[p][j], pos)
              /\ \E y \in Children(components[p][j]) : Reached(y, pos)

AllVisible == [Heap EXCEPT !.visible = [p \in Panels |-> TRUE]]

\* C9: dispatch does not depend on the visible flags: every event gives the
\* same emissions, in the same order, and the same hovered sets as on the
\* same tree with every panel visible; a press that reaches a panel with
\* visible = False emits its mouse_pressed.
C9_DispatchIgnoresVisible ==
    \A type \in {"MOUSEMOTION", "MOUSEBUTTONDOWN", "MOUSEBUTTONUP", "KEYDOWN"} :
      \A pos \in Positions, ord \in OrdersOf(type) :
        LET d == DispatchEvent(Heap, Root, type, pos, ord)
        IN  /\ d = DispatchEvent(AllVisible, Root, type, pos, ord)
            /\ type = "MOUSEBUTTONDOWN" =>
                 \A c \in created \ {Root} :
                   (~visible[c] /\ Reached(c, pos))
                   => Count(d.log, "mouse_pressed", c) = 1

\* C9 witness: a press was dispatched while a panel that some position
\* reaches, and its parent, were invisible.
C9_Witness ==
    /\ last.op = "MOUSEBUTTONDOWN"
    /\ \E c \in created \ {Root} :
         /\ ~visible[c]
         /\ Owner(c) # Root
         /\ ~visible[Owner(c)]
         /\ \E pos \in Positions : Reached(c, pos)

\* C15: within the move dispatch on a reached panel P, every hit child's own
\* move dispatch (its mouse_moved and everything emitted below it) comes
\* before P's mouse_moved; after P's mouse_moved come one mouse_entered for
\* each child hit now and not hovered before and one mouse_exited for each
\* child hovered before and not hit now (both judged against the hovered set
\* of before the event); P's hovered set ends as the hit set; so a newly
\* hovered child's mouse_moved precedes its mouse_entered.
C15_MoveOrder ==
    \A pos \in Positions, ord \in Orders :
        LET d == DispatchEvent(Heap, Root, "MOUSEMOTION", pos, ord)
            reached == {c \in created : Reached(c, pos)}
        IN  /\ d.exc = "none"
            /\ \A P \in reached :
                 LET hit == Children(P) \cap reached
                     m == Index(d.log, "mouse_moved", P)
                 IN  /\ Count(d.log, "mouse_moved", P) = 1
                     /\ \A c \in hit : \A i \in 1 .. Len(d.log) :
                          (\/ d.log[i].panel # c /\ Under(d.log[i].panel, c)
                           \/ d.log[i].panel = c /\ d.log[i].sig = "mouse_moved")
                          => i < m
                     /\ \A c \in Children(P) :
                          /\ Count(d.log, "mouse_entered", c) =
                               IF c \in hit \ hovered[P] THEN 1 ELSE 0
                          /\ Count(d.log, "mouse_exited", c) =
                               IF c \in hovered[P] \ hit THEN 1 ELSE 0
                     /\ \A c \in hit \ hovered[P] :
                          /\ m < Index(d.log, "mouse_entered", c)
                          /\ Index(d.log, "mouse_moved", c)
                               < Index(d.log, "mouse_entered", c)
                     /\ \A c \in hovered[P] \ hit :
                          m < Index(d.log, "mouse_exited", c)
                     /\ d.hov[P] = hit

\* C15 witness: a move has hovered a child c of a panel P below the root
\* (c was newly hit: its mouse_moved, then P's, then its mouse_entered), c
\* has a hovered child of its own, and a position reaches P and misses c.
C15_Witness ==
    /\ last.op = "MOUSEMOTION"
    /\ \E P \in created \ {Root} : \E c \in hovered[P] :
         /\ hovered[c] # {}
         /\ \E pos \in Positions : Reached(P, pos) /\ ~Reached(c, pos)

RECURSIVE OriginSum(_)
\* the sum of the rectangle origins of c and of its ancestors below the root
OriginSum(c) ==
    IF c = Root THEN <<0, 0>>
    ELSE LET s == OriginSum(Owner(c))
         IN  <<s[1] + rect[c].x, s[2] + rect[c].y>>

\* C16: the position emitted with a panel's mouse_pressed, mouse_released or
\* mouse_moved is the event's absolute position minus the sum of the
\* rectangle origins of the panel and of its ancestors below the root; the
\* root emits the absolute position itself.
C16_LocalPosition ==
    \A type \in {"MOUSEMOTION", "MOUSEBUTTONDOWN", "MOUSEBUTTONUP"} :
      \A pos \in Positions, ord \in OrdersOf(type) :
        LET d == DispatchEvent(Heap, Root, type, pos, ord)
        IN  /\ d.exc = "none"
            /\ \A i \in 1 .. Len(d.log) :
                 d.log[i].sig = SignalOf(type) =>
                   LET s == OriginSum(d.log[i].panel)
                   IN  d.log[i].args = <<(<<pos[1] - s[1], pos[2] - s[2]>>)>>
            /\ Count(d.log, SignalOf(type), Root) = 1
            /\ d.log[Index(d.log, SignalOf(type), Root)].args = <<pos>>

\* C16 witness: a release was dispatched on a tree where some position
\* reaches a panel whose own origin is off the x axis origin and whose
\* parent, a child of the root, has its origin off the y axis origin.
C16_Witness ==
    /\ last.op = "MOUSEBUTTONUP"
    /\ \E c \in created \ {Root} :
         /\ Owner(c) # Root
         /\ rect[c].x > 0
         /\ rect[Owner(c)].y > 0
         /\ \E pos \in Positions : Reached(c, pos)

\* C17: on a tree that only events act on, a completed move dispatch from
\* the root leaves every panel it reached with the hovered set of exactly
\* its children whose rectangle contains the position in the panel's own
\* space, and every panel it did not reach with an empty hovered set.
C17_HoverIsHitSet ==
    \A pos \in Positions, ord \in Orders :
        LET d == DispatchEvent(Heap, Root, "MOUSEMOTION", pos, ord)
        IN  /\ d.exc = "none"
            /\ \A P \in created :
                 d.hov[P] = IF Reached(P, pos)
                            THEN {c \in Children(P) :
                                    collidepoint(rect[c], LocalPos(P, pos))}
                            ELSE {}

\* C17 witness: a move has left a panel below the root with a hovered child;
\* one position does not reach the panel, and one reaches it and hits some
\* but not all of its children.
C17_Witness ==
    /\ last.op = "MOUSEMOTION"
    /\ \E P \in created \ {Root} :
         /\ hovered[P] # {}
         /\ \E pos \in Positions : ~Reached(P, pos)
         /\ \E pos \in Positions :
              /\ Reached(P, pos)
              /\ \E c \in Children(P) : Reached(c, pos)
              /\ \E c \in Children(P) : ~Reached(c, pos)

\* C19: a press dispatch, a release dispatch and dispatch_event on an event
\* of any other kind than move, press and release leave every hovered set,
\* components list and parent reference unchanged and emit no
\* mouse_entered, mouse_exited or mouse_moved; the event of another kind
\* emits nothing.  Stated of every such step, with the emissions taken from
\* the dispatch of that kind at every position.
C19_PressReleaseFrame ==
    /\ [](\A type \in {"MOUSEBUTTONDOWN", "MOUSEBUTTONUP", "KEYDOWN"} :
          \A pos \in Positions, ord \in OrdersOf(type) :
            LET d == DispatchEvent(Heap, Root, type, pos, ord)
            IN  /\ d.hov = hovered
                /\ \A i \in 1 .. Len(d.log) :
                     d.log[i].sig \notin
                       {"mouse_entered", "mouse_exited", "mouse_moved"}
                /\ type = "KEYDOWN" => d.log = <<>>)
    /\ [][last'.op \in {"MOUSEBUTTONDOWN", "MOUSEBUTTONUP", "KEYDOWN"}
           => UNCHANGED <<hovered, components, parent, inside>>]_vars

\* C19 witness: a release was dispatched while a panel below the root had a
\* hovered child that a move to some position would have exited.
C19_Witness ==
    /\ last.op = "MOUSEBUTTONUP"
    /\ \E P \in created \ {Root} : \E c \in hovered[P] :
         \E pos \in Positions : ~Reached(c, pos)

RECURSIVE Shown(_)
\* D and every panel strictly between the root and D are visible
Shown(D) ==
    /\ Attached(D)
    /\ visible[D]
    /\ Owner(D) = Root \/ Shown(Owner(D))

\* C18: a paint pass from the root paints a descendant D if and only if D
\* and every panel strictly between the root and D are visible, and paints
\* siblings in components order.  (That the pass changes no parent,
\* components, hovered set or visible flag and emits no signal holds of
\* DoRender, which has no access to them.)
C18_PaintVisibleSubtree ==
    LET p == Render(Heap, Root)
        at(c) == CHOOSE i \in 1 .. Len(p.painted) : p.painted[i] = c
    IN  /\ \A D \in created \ {Root} : (D \in Range(p.painted)) <=> Shown(D)
        /\ \A P \in created : \A i, j \in 1 .. Len(components[P]) :
             (i < j /\ Shown(components[P][i]) /\ Shown(components[P][j]))
             => at(components[P][i]) < at(components[P][j])

\* ==================================================== the signal claims
\* C13: emit invokes the registered slots with the payload of the call, in
\* the order of the connect calls, each once per connect call (stated of
\* the signals none of whose slots raises; C14 is about the others), and a
\* connect call appends its slot to the slots of its signal and changes
\* nothing else.
C13_EmitInConnectOrder ==
    /\ [](\A p \in created, sig \in SigNames, args \in Payloads :
            LET list == SlotsOf(slots, p, sig)
                d == Emit(NewDispatch, sig, p, args)
                calls == SelectSeq(d.log, LAMBDA e : e.sig = "slot")
            IN  (\A i \in 1 .. Len(list) : ~Raises(list[i]))
                => /\ d.exc = "none"
                   /\ Len(calls) = Len(list)
                   /\ \A i \in 1 .. Len(list) :
                        calls[i] = Invocation(sig, p, args, list[i]))
    /\ [][last'.op = "connect"
           => /\ \E slot \in SlotIds :
                   SlotsOf(slots', last'.self, last'.sig) =
                     SlotsOf(slots, last'.self, last'.sig) \o <<slot>>
              /\ \A p \in Panels, sig \in SigNames :
                   <<p, sig>> # <<last'.self, last'.sig>>
                   => SlotsOf(slots', p, sig) = SlotsOf(slots, p, sig)]_vars

\* C13 witness: emit has just returned from a signal whose slots are one
\* callable, another one, and the first one again.
C13_Witness ==
    /\ last.op = "emit"
    /\ last.exc = "none"
    /\ LET list == SlotsOf(slots, last.self, last.sig)
       IN  /\ Len(list) = 3
           /\ list[1] = list[3]
           /\ list[1] # list[2]

\* C14: when a slot raises during an emission of a dispatch, the log of the
\* dispatch ends with the invocation of that slot: no later slot of the
\* signal is invoked, no further signal is emitted, no further enter or
\* exit notification is sent; and the exception reaches the caller of
\* dispatch_event.
C14_SlotFailureUnwinds ==
    \A type \in {"MOUSEMOTION", "MOUSEBUTTONDOWN", "MOUSEBUTTONUP"} :
      \A pos \in Positions :
        \A ord \in OrdersOf(type) :
          LET d == DispatchEvent(Heap, Root, type, pos, ord)
              failed == {i \in 1 .. Len(d.log) :
                           d.log[i].sig = "slot" /\ Raises(d.log[i].slot)}
          IN  /\ failed \subseteq {Len(d.log)}
              /\ d.exc = IF failed = {} THEN "none" ELSE "SlotError"

\* C14 witness: a move has just failed in a scene where the mouse_moved
\* signal of a panel below the root has the raising slot followed by
\* another one.
C14_Witness ==
    /\ last.op = "MOUSEMOTION"
    /\ last.exc = "SlotError"
    /\ \E p \in created \ {Root} :
         /\ Len(SlotsOf(slots, p, "mouse_moved")) = 2
         /\ Raises(SlotsOf(slots, p, "mouse_moved")[1])
====
